---- MODULE Spec2Model ----
(***************************************************************************)
(* A model of the logging facade of package log (olee12/log): the          *)
(* process-wide default logger DefaultZapLogger, the level gate loglv,     *)
(* Configure, the leveled logging functions and LogEntry methods, field    *)
(* binding and the context association.                                    *)
(*                                                                         *)
(* The zap objects the package builds are modelled by what the package    *)
(* relies on: a zap.Logger is a core (an output WriteSyncer and a pointer  *)
(* to an AtomicLevel) plus the fields bound with With; AtomicLevels and    *)
(* LogEntries live on heaps (sequences indexed by address).                *)
(***************************************************************************)
EXTENDS Integers, Sequences, FiniteSets, TLC

(* ---------------------------------------------------------------------- *)
(* Bounds of the model                                                      *)
(* ---------------------------------------------------------------------- *)
\* LogEntry objects ever allocated (Init allocates one)
MaxLoggers == 3
\* AtomicLevel objects ever allocated (Init allocates one)
MaxGates == 2
\* values attached to the context the program holds
MaxCtx == 2

(* ---------------------------------------------------------------------- *)
(* Levels                                                                   *)
(* ---------------------------------------------------------------------- *)
DebugLevel == -1
InfoLevel == 0
WarnLevel == 1
ErrorLevel == 2
DPanicLevel == 3
PanicLevel == 4
FatalLevel == 5

Levels == DebugLevel..FatalLevel

(* ---------------------------------------------------------------------- *)
(* Sinks (zapcore.WriteSyncer values)                                       *)
(* ---------------------------------------------------------------------- *)
\* the nil WriteSyncer newRollingFile returns when MkdirAll fails
NilSink == "nil"
Stdout == "os.Stdout"
Stderr == "os.Stderr"
\* config.ConsoleInfoStream / config.ConsoleErrorStream when they are set
InfoStream == "ConsoleInfoStream"
ErrorStream == "ConsoleErrorStream"

ConsoleSinks == {Stdout, Stderr, InfoStream, ErrorStream}

\* config.Filename is "" in every Config the model draws
getNameByLogLevel(level) ==
    IF level = ErrorLevel THEN "error.log" ELSE "info.log"

FileSinks == {getNameByLogLevel(InfoLevel), getNameByLogLevel(ErrorLevel)}

(* ---------------------------------------------------------------------- *)
(* Fields                                                                   *)
(* ---------------------------------------------------------------------- *)
DefaultFieldName == "-"

Keys == {"k1", "k2"}
Vals == {"a"}

\* a Fields value (a Go map) is a function from a set of keys
FieldMaps == UNION {[ks -> Vals] : ks \in SUBSET Keys}

\* the orders in which a range loop may visit the keys S
Orders(S) ==
    {s \in [1..Cardinality(S) -> S] : \A i, j \in 1..Cardinality(S) : i # j => s[i] # s[j]}

\* convertFields ranges over the map: Go leaves the iteration order open,
\* so every order of the keys is a possible result
convertFields(fields) ==
    {[i \in 1..Len(ord) |-> <<ord[i], fields[ord[i]]>>] :
        ord \in Orders(DOMAIN fields)}

(* ---------------------------------------------------------------------- *)
(* State                                                                    *)
(* ---------------------------------------------------------------------- *)
VARIABLES
    gates,              \* heap of zap.AtomicLevel: address -> level
    loggers,            \* heap of LogEntry: address -> the four zap loggers
    DefaultZapLogger,   \* package variable: address of the default LogEntry
    loglv,              \* package variable: the AtomicLevel SetLevel/GetLevel use
    proc,               \* "running", "exited" (os.Exit by Fatal), "crashed" (nil dereference)
    calls,              \* the log calls the latest operation issued, in order
    ret,                \* the latest operation: its name, argument and result
    ctx,                \* the context.Context the program holds: chain of <<key, value>>
    lastSet,            \* history: the level of the latest SetLevel since the latest Configure
    lineage,            \* history: for each LogEntry, the LogEntry it was derived from
                        \* (0: built by newZapLogger), the fields the caller bound and
                        \* the isDefaultLogger its newZapLogger was called with
    conf                \* the goroutine inside Configure: its position and locals

vars == <<gates, loggers, DefaultZapLogger, loglv, proc, calls, ret, ctx, lastSet, lineage, conf>>

\* the part of the state the logging operations read and write
World == [gates |-> gates, loggers |-> loggers, DefaultZapLogger |-> DefaultZapLogger,
          loglv |-> loglv, proc |-> proc, calls |-> calls]

Install(w) ==
    /\ gates' = w.gates
    /\ loggers' = w.loggers
    /\ DefaultZapLogger' = w.DefaultZapLogger
    /\ loglv' = w.loglv
    /\ proc' = w.proc
    /\ calls' = w.calls

\* ret before any operation was called: the operation's name, the LogEntry
\* it was called on, its argument and its result
NoOp == [op |-> "init", on |-> 0, arg |-> 0, val |-> 0]

(* ---------------------------------------------------------------------- *)
(* zap: cores, writes, level check                                          *)
(* ---------------------------------------------------------------------- *)
\* zapcore.NewCore(encoder, out, lv) wrapped by zap.New: no fields bound yet
NewCore(out, lv) == [out |-> out, lv |-> lv, fields |-> <<>>]

\* zap.Logger.With: a clone that shares the core's output and level
With(zl, args) == [zl EXCEPT !.fields = @ \o args]

\* zap.Logger.Sugar: the sugared logger wraps the same core and fields
Sugar(zl) == zl

\* Writing to a (multi) WriteSyncer calls Write on each writer in order; a
\* nil writer is a nil dereference, after the writers before it were written
WriteSyncerWrite(out) ==
    LET nils == {i \in 1..Len(out) : out[i] = NilSink}
        first == CHOOSE i \in nils : \A j \in nils : i <= j
    IN  IF nils = {}
        THEN [written |-> out, panic |-> FALSE]
        ELSE [written |-> SubSeq(out, 1, first - 1), panic |-> TRUE]

\* One call of a zap logger method at level sev on the zap logger
\* (a message is the sequence of the pieces of text it is made of)
\* w.loggers[le][target]: the core's level check, the write when enabled,
\* then the level's terminal behaviour (panic for Panic, os.Exit for Fatal;
\* DPanic does not panic outside development mode).
zapLog(w, api, style, le, target, sev, msg, extra) ==
    IF w.proc # "running" THEN w
    ELSE
    LET zl == w.loggers[le][target]
        enabled == sev >= w.gates[zl.lv]
        wr == IF enabled THEN WriteSyncerWrite(zl.out)
              ELSE [written |-> <<>>, panic |-> FALSE]
        outcome == IF wr.panic THEN "nilderef"
                   ELSE IF sev = PanicLevel THEN "panic"
                   ELSE IF sev = FatalLevel THEN "exit"
                   ELSE "ok"
        call == [api |-> api, style |-> style, le |-> le, target |-> target,
                 sev |-> sev, msg |-> msg, lv |-> zl.lv, enabled |-> enabled,
                 written |-> wr.written,
                 fields |-> zl.fields \o extra, extra |-> extra,
                 outcome |-> outcome]
    IN  [w EXCEPT !.calls = Append(@, call),
                  !.proc = IF outcome = "nilderef" THEN "crashed"
                           ELSE IF outcome = "exit" THEN "exited"
                           ELSE @]

(* ---------------------------------------------------------------------- *)
(* The leveled API: which zap logger each function and method uses          *)
(* ---------------------------------------------------------------------- *)
Styles == {"plain", "With", "v", "f", "ln", "w"}
Apis == {"package", "LogEntry"}

\* the package has no Debugln ... DPanicln functions
Defined(api, style) == ~(api = "package" /\ style = "ln")

\* mutant: Warnf, Warnln and Warnw use the info channel's sugared logger
LogEntryTarget_WarnSugaredToInfo(style, sev) ==
    IF sev \in {DebugLevel, InfoLevel}
    THEN IF style \in {"f", "ln", "w"} THEN "infoSugared" ELSE "infoLogger"
    ELSE IF style \in {"f", "ln", "w"}
         THEN IF sev = WarnLevel THEN "infoSugared" ELSE "errorSugared"
         ELSE "errorLogger"

\* LogEntry methods (log_entry.go): Debug*/Info* use the info loggers, all
\* others the error loggers; f, ln and w go through the sugared logger
LogEntryTarget(style, sev) ==
    IF sev \in {DebugLevel, InfoLevel}
    THEN IF style \in {"f", "ln", "w"} THEN "infoSugared" ELSE "infoLogger"
    ELSE IF style \in {"f", "ln", "w"} THEN "errorSugared" ELSE "errorLogger"

\* package functions: Xw calls DefaultZapLogger.Xw, Xf the sugared logger,
\* X, XWith and Xv the plain logger of the same band
PackageTarget(style, sev) ==
    IF style = "w" THEN LogEntryTarget("w", sev)
    ELSE IF sev \in {DebugLevel, InfoLevel}
    THEN IF style = "f" THEN "infoSugared" ELSE "infoLogger"
    ELSE IF style = "f" THEN "errorSugared" ELSE "errorLogger"

Target(api, style, sev) ==
    IF api = "package" THEN PackageTarget(style, sev) ELSE LogEntryTarget(style, sev)

\* the extra fields a call of this style can pass
TakesFields(style) == style \in {"With", "v", "w"}

(* ---------------------------------------------------------------------- *)
(* Messages of the sugared styles (fmt and zap.SugaredLogger)               *)
(* ---------------------------------------------------------------------- *)
\* an interface{} argument: a scalar, or a slice with its elements as fmt's
\* %v prints them
Scalar(x) == [slice |-> FALSE, elems |-> <<x>>]

\* fmt's %v of one argument: a slice prints as [e1 e2 ...]
FormatValue(arg) == IF arg.slice THEN <<"[">> \o arg.elems \o <<"]">> ELSE arg.elems

\* the texts of the arguments, sep between two of them
RECURSIVE JoinValues(_, _)
JoinValues(args, sep) ==
    IF Len(args) = 0 THEN <<>>
    ELSE IF Len(args) = 1 THEN FormatValue(args[1])
    ELSE FormatValue(args[1]) \o <<sep>> \o JoinValues(Tail(args), sep)

\* the variadic parameter args as one value: the slice []interface{}{a1..an}
SliceOf(args) == [slice |-> TRUE, elems |-> JoinValues(args, " ")]

\* fmt.Sprintf(template, a...): each verb takes the next argument, a verb
\* without argument prints as MISSING, arguments left over as EXTRA
RECURSIVE Sprintf(_, _)
Sprintf(template, a) ==
    IF Len(template) = 0
    THEN IF Len(a) = 0 THEN <<>>
         ELSE <<"%!(EXTRA ">> \o JoinValues(a, ", ") \o <<")">>
    ELSE IF Head(template) = "%v"
    THEN IF Len(a) = 0
         THEN <<"%!v(MISSING)">> \o Sprintf(Tail(template), a)
         ELSE FormatValue(Head(a)) \o Sprintf(Tail(template), Tail(a))
    ELSE <<Head(template)>> \o Sprintf(Tail(template), a)

\* zap's getMessage: the template itself when there are no arguments
getMessage(template, fmtArgs) ==
    IF Len(fmtArgs) = 0 THEN template ELSE Sprintf(template, fmtArgs)

\* zap's getMessageln: fmt.Sprintln(fmtArgs...) without the final newline
getMessageln(fmtArgs) == JoinValues(fmtArgs, " ")

\* what the sugared logger receives for the caller's args: the package
\* functions spread them (args...), the LogEntry methods pass the slice
\* itself as the one argument (args)
Passed(api, args) == IF api = "LogEntry" THEN <<SliceOf(args)>> ELSE args

\* the message a call of the style logs
Message(api, style, template, args) ==
    IF style = "f" THEN getMessage(template, Passed(api, args))
    ELSE IF style = "ln" THEN getMessageln(Passed(api, args))
    ELSE template

(* ---------------------------------------------------------------------- *)
(* Building loggers                                                         *)
(* ---------------------------------------------------------------------- *)
getLogEntry(infoLogger, errorLogger) ==
    [infoLogger |-> infoLogger, errorLogger |-> errorLogger,
     infoSugared |-> Sugar(infoLogger), errorSugared |-> Sugar(errorLogger)]

\* mutant: the new AtomicLevel is never published as loglv
newZapLogger_NoPublish(w, config, infoOutput, errOutput, isDefaultLogger) ==
    IF w.proc # "running" THEN w
    ELSE
    LET localLoglv == Len(w.gates) + 1
        entry == getLogEntry(NewCore(infoOutput, localLoglv),
                             NewCore(errOutput, localLoglv))
    IN  [w EXCEPT !.gates = Append(@, config.Level),
                  !.loggers = Append(@, entry)]

\* mutant: the new AtomicLevel is published as loglv whatever isDefaultLogger is
newZapLogger_AlwaysPublish(w, config, infoOutput, errOutput, isDefaultLogger) ==
    IF w.proc # "running" THEN w
    ELSE
    LET localLoglv == Len(w.gates) + 1
        entry == getLogEntry(NewCore(infoOutput, localLoglv),
                             NewCore(errOutput, localLoglv))
    IN  [w EXCEPT !.gates = Append(@, config.Level),
                  !.loglv = localLoglv,
                  !.loggers = Append(@, entry)]

\* newZapLogger: a fresh AtomicLevel at config.Level, published as loglv
\* when the logger is to be the default one; both cores use it. The result
\* is the world with the new LogEntry allocated at address Len(loggers).
newZapLogger(w, config, infoOutput, errOutput, isDefaultLogger) ==
    IF w.proc # "running" THEN w
    ELSE
    LET localLoglv == Len(w.gates) + 1
        entry == getLogEntry(NewCore(infoOutput, localLoglv),
                             NewCore(errOutput, localLoglv))
    IN  [w EXCEPT !.gates = Append(@, config.Level),
                  !.loglv = IF isDefaultLogger THEN localLoglv ELSE @,
                  !.loggers = Append(@, entry)]

\* mutant: the fields are bound on the parent's own loggers as well
newLogEntry_MutatesParent(w, logEntry, args) ==
    LET infoLogger == With(w.loggers[logEntry].infoLogger, args)
        errorLogger == With(w.loggers[logEntry].errorLogger, args)
        le == [infoLogger |-> infoLogger, errorLogger |-> errorLogger,
               infoSugared |-> Sugar(infoLogger), errorSugared |-> Sugar(errorLogger)]
    IN  [w EXCEPT !.loggers = Append([@ EXCEPT ![logEntry] = le], le)]

\* newLogEntry(logEntry, fields), args being convertFields(fields)
newLogEntry(w, logEntry, args) ==
    LET infoLogger == With(w.loggers[logEntry].infoLogger, args)
        errorLogger == With(w.loggers[logEntry].errorLogger, args)
        le == [infoLogger |-> infoLogger, errorLogger |-> errorLogger,
               infoSugared |-> Sugar(infoLogger), errorSugared |-> Sugar(errorLogger)]
    IN  [w EXCEPT !.loggers = Append(@, le)]

\* mutant: the new fields are put in front of the ones already bound
LogEntryWithFields_Prepend(w, le, args) ==
    LET infoLogger == [w.loggers[le].infoLogger EXCEPT !.fields = args \o @]
        errorLogger == [w.loggers[le].errorLogger EXCEPT !.fields = args \o @]
        l == [infoLogger |-> infoLogger, errorLogger |-> errorLogger,
              infoSugared |-> Sugar(infoLogger), errorSugared |-> Sugar(errorLogger)]
    IN  [w EXCEPT !.loggers = Append(@, l)]

\* (le *LogEntry) WithFields(f), args being convertFields(f)
LogEntryWithFields(w, le, args) ==
    LET infoLogger == With(w.loggers[le].infoLogger, args)
        errorLogger == With(w.loggers[le].errorLogger, args)
        l == [infoLogger |-> infoLogger, errorLogger |-> errorLogger,
              infoSugared |-> Sugar(infoLogger), errorSugared |-> Sugar(errorLogger)]
    IN  [w EXCEPT !.loggers = Append(@, l)]

(* ---------------------------------------------------------------------- *)
(* Config and Configure                                                     *)
(* ---------------------------------------------------------------------- *)
\* a directory os.MkdirAll can create, and one it cannot
GoodDir == "logs"
BadDir == "/proc/none/logs"
Directories == {GoodDir, BadDir}

\* os.MkdirAll(dir, 0744) returns a non-nil error
MkdirAllFails(dir) == dir = BadDir

\* Config; the two stream fields say whether the *os.File is non-nil
AllConfigs ==
    [Level : Levels, FileLoggingEnabled : BOOLEAN, ConsoleLoggingEnabled : BOOLEAN,
     Directory : Directories, ConsoleInfoStream : BOOLEAN, ConsoleErrorStream : BOOLEAN]

defaultConfig ==
    [Level |-> DebugLevel, FileLoggingEnabled |-> FALSE, ConsoleLoggingEnabled |-> FALSE,
     Directory |-> GoodDir, ConsoleInfoStream |-> FALSE, ConsoleErrorStream |-> FALSE]

\* Errorv / Infov on the default logger, as Configure's helpers call them
Errorv(w, msg, fields) ==
    zapLog(w, "package", "v", w.DefaultZapLogger, Target("package", "v", ErrorLevel),
           ErrorLevel, msg, fields)

Infov(w, msg, fields) ==
    zapLog(w, "package", "v", w.DefaultZapLogger, Target("package", "v", InfoLevel),
           InfoLevel, msg, fields)

\* newRollingFile: the world after it and the WriteSyncer it returns
newRollingFile(w, dir, filename) ==
    IF MkdirAllFails(dir)
    THEN [w |-> Errorv(w, <<"failed create log directory">>, << <<"path", dir>> >>),
          sink |-> NilSink]
    ELSE [w |-> w, sink |-> filename]

\* mutant: the else branch of line 112 is missing, console logging is not forced
consoleLoggingEnabled_NotForced(config) == config.ConsoleLoggingEnabled

\* Configure, lines 107-114: config.ConsoleLoggingEnabled after the first if
consoleLoggingEnabled(config) ==
    IF config.FileLoggingEnabled THEN config.ConsoleLoggingEnabled ELSE TRUE

\* Configure, lines 116-127: the console writers appended to each list
consoleInfoWriters(config) ==
    IF consoleLoggingEnabled(config)
    THEN IF config.ConsoleInfoStream THEN <<InfoStream>> ELSE <<Stdout>>
    ELSE <<>>

consoleErrWriters(config) ==
    IF consoleLoggingEnabled(config)
    THEN IF config.ConsoleErrorStream THEN <<ErrorStream>> ELSE <<Stderr>>
    ELSE <<>>

\* DeclareLogger(config, logv): one "logging configured" call through logv
BoolString(b) == IF b THEN "true" ELSE "false"

DeclareFields(config) ==
    << <<"fileLogging", BoolString(config.FileLoggingEnabled)>>,
       <<"consoleLogging", BoolString(consoleLoggingEnabled(config))>>,
       <<"logDirectory", config.Directory>> >>

\* Configure up to and including the call of newZapLogger (lines 104-129,
\* right-hand side): the writers are built, newZapLogger allocates the
\* LogEntry and publishes the new AtomicLevel as loglv
ConfigureBuild(w, config) ==
    LET r1 == IF config.FileLoggingEnabled
              THEN newRollingFile(w, config.Directory, getNameByLogLevel(InfoLevel))
              ELSE [w |-> w, sink |-> NilSink]
        r2 == IF config.FileLoggingEnabled
              THEN newRollingFile(r1.w, config.Directory, getNameByLogLevel(ErrorLevel))
              ELSE [w |-> r1.w, sink |-> NilSink]
        infoWriters == (IF config.FileLoggingEnabled THEN <<r1.sink>> ELSE <<>>)
                       \o consoleInfoWriters(config)
        errWriters == (IF config.FileLoggingEnabled THEN <<r2.sink>> ELSE <<>>)
                      \o consoleErrWriters(config)
    IN  newZapLogger(r2.w, config, infoWriters, errWriters, TRUE)

\* line 129, the assignment: the LogEntry newZapLogger returned (the newest
\* on the heap) becomes the default
ConfigureAssign(w, entry) ==
    IF w.proc # "running" THEN w ELSE [w EXCEPT !.DefaultZapLogger = entry]

\* lines 131-132
DeclareInfo(w, config) == Infov(w, <<"logging configured">>, DeclareFields(config))
DeclareError(w, config) == Errorv(w, <<"logging configured">>, DeclareFields(config))

\* the whole of Configure
ConfigureWorld(w, config) ==
    LET w1 == ConfigureBuild(w, config)
        w2 == ConfigureAssign(w1, Len(w1.loggers))
        w3 == DeclareInfo(w2, config)
    IN  DeclareError(w3, config)

\* what Configure hands back to its caller: nil on every path that returns;
\* a call that panicked inside returns nothing
ConfigureResult(w) == IF w.proc = "running" THEN "nil" ELSE "no return"

(* ---------------------------------------------------------------------- *)
(* Context association                                                      *)
(* ---------------------------------------------------------------------- *)
loggerKey == "loggerKey"
otherKey == "otherKey"

\* context.WithValue(ctx, key, val)
WithValue(c, key, val) == Append(c, <<key, val>>)

\* ctx.Value(key): the innermost value attached under key, if any
RECURSIVE Value(_, _)
Value(c, key) ==
    IF Len(c) = 0 THEN [ok |-> FALSE, val |-> 0]
    ELSE IF c[Len(c)][1] = key THEN [ok |-> TRUE, val |-> c[Len(c)][2]]
    ELSE Value(SubSeq(c, 1, Len(c) - 1), key)

\* (le *LogEntry) ContextWithLogger(ctx)
LogEntryContextWithLogger(le, c) == WithValue(c, loggerKey, le)

\* mutant: the attached logger is ignored
FromContextOf_AlwaysDefault(c, default) == default

\* FromContext(ctx)
FromContextOf(c, default) ==
    LET v == Value(c, loggerKey)
    IN  IF ~v.ok THEN default ELSE v.val

(* ---------------------------------------------------------------------- *)
(* Init                                                                     *)
(* ---------------------------------------------------------------------- *)
\* package initialisation: DefaultZapLogger = newZapLogger(defaultConfig,
\* os.Stdout, os.Stderr, true)
InitWorld ==
    newZapLogger([gates |-> <<>>, loggers |-> <<>>, DefaultZapLogger |-> 0, loglv |-> 0,
                  proc |-> "running", calls |-> <<>>],
                 defaultConfig, <<Stdout>>, <<Stderr>>, TRUE)

NoLevel == [set |-> FALSE, level |-> DebugLevel]
Idle == [pc |-> "idle", config |-> defaultConfig, entry |-> 0]
Built == [parent |-> 0, args |-> <<>>, isDefaultLogger |-> TRUE]

Init ==
    /\ gates = InitWorld.gates
    /\ loggers = InitWorld.loggers
    /\ DefaultZapLogger = Len(InitWorld.loggers)
    /\ loglv = InitWorld.loglv
    /\ proc = "running"
    /\ calls = <<>>
    /\ ret = NoOp
    /\ ctx = <<>>
    /\ lastSet = NoLevel
    /\ lineage = <<Built>>
    /\ conf = Idle

(* ---------------------------------------------------------------------- *)
(* Operations                                                               *)
(* ---------------------------------------------------------------------- *)
\* the LogEntries the program holds a pointer to: all but the one a
\* Configure in progress has built and not yet assigned
Held == {i \in 1..Len(loggers) : ~(conf.pc = "built" /\ i = conf.entry)}

\* the LogEntries a call through api can be made on
Receivers(api) == IF api = "package" THEN {DefaultZapLogger} ELSE Held

\* SetLevel(l)
SetLevelWorld(w, l) == [w EXCEPT !.gates[w.loglv] = l, !.calls = <<>>]

SetLevel(l) ==
    /\ proc = "running"
    /\ Install(SetLevelWorld(World, l))
    /\ ret' = [op |-> "SetLevel", on |-> 0, arg |-> l, val |-> 0]
    /\ lastSet' = [set |-> TRUE, level |-> l]
    /\ UNCHANGED <<ctx, lineage, conf>>

\* GetLevel()
GetLevelOf(w) == w.gates[w.loglv]

GetLevel ==
    /\ proc = "running"
    /\ ret' = [op |-> "GetLevel", on |-> 0, arg |-> 0, val |-> GetLevelOf(World)]
    /\ calls' = <<>>
    /\ UNCHANGED <<gates, loggers, DefaultZapLogger, loglv, proc, ctx, lastSet, lineage, conf>>

\* one of the package's leveled functions (api = "package", on the default
\* logger) or of the LogEntry methods (on le), called with the text "msg":
\* X("msg"), Xf("msg") without arguments, Xln("msg")
Log(api, le, style, sev, extra) ==
    /\ proc = "running"
    /\ Defined(api, style)
    /\ api = "package" => le = DefaultZapLogger
    /\ ~TakesFields(style) => extra = <<>>
    /\ Install(zapLog([World EXCEPT !.calls = <<>>], api, style, le,
                      Target(api, style, sev), sev,
                      Message(api, style, <<"msg">>,
                              IF style = "ln" THEN <<Scalar("msg")>> ELSE <<>>),
                      extra))
    /\ ret' = [op |-> "Log", on |-> le, arg |-> sev, val |-> 0]
    /\ UNCHANGED <<ctx, lastSet, lineage, conf>>

\* Configure(config), run to completion
Configure(config) ==
    /\ proc = "running"
    /\ conf.pc = "idle"
    /\ Len(loggers) < MaxLoggers
    /\ Len(gates) < MaxGates
    /\ LET w == ConfigureWorld([World EXCEPT !.calls = <<>>], config)
       IN  /\ Install(w)
           /\ ret' = [op |-> "Configure", on |-> 0, arg |-> config,
                      val |-> ConfigureResult(w)]
    /\ lastSet' = NoLevel
    /\ lineage' = IF Len(loggers') > Len(loggers) THEN Append(lineage, Built) ELSE lineage
    /\ UNCHANGED <<ctx, conf>>

\* package WithFields(fields); args is the order convertFields produced
WithFields(args) ==
    /\ proc = "running"
    /\ Len(loggers) < MaxLoggers
    /\ Install(newLogEntry([World EXCEPT !.calls = <<>>], DefaultZapLogger, args))
    /\ ret' = [op |-> "WithFields", on |-> DefaultZapLogger, arg |-> args,
               val |-> Len(loggers) + 1]
    /\ lineage' = Append(lineage, [parent |-> DefaultZapLogger, args |-> args,
                                   isDefaultLogger |-> lineage[DefaultZapLogger].isDefaultLogger])
    /\ UNCHANGED <<ctx, lastSet, conf>>

\* package WithField(k, v) == newLogEntry(DefaultZapLogger, Fields{k: v})
WithField(k, v) ==
    \E args \in convertFields([x \in {k} |-> v]) : WithFields(args)

\* package With(data) == WithField(DefaultFieldName, data)
WithData(data) == WithField(DefaultFieldName, data)

\* (le *LogEntry) WithFields(f)
LogEntryWithFieldsOp(le, args) ==
    /\ proc = "running"
    /\ Len(loggers) < MaxLoggers
    /\ Install(LogEntryWithFields([World EXCEPT !.calls = <<>>], le, args))
    /\ ret' = [op |-> "WithFields", on |-> le, arg |-> args, val |-> Len(loggers) + 1]
    /\ lineage' = Append(lineage, [parent |-> le, args |-> args,
                                   isDefaultLogger |-> lineage[le].isDefaultLogger])
    /\ UNCHANGED <<ctx, lastSet, conf>>

\* Configure(config) step by step, as a goroutine that other goroutines
\* interleave with: lines 104-129 up to the return of newZapLogger ...
ConfigureBegin(config) ==
    /\ proc = "running"
    /\ conf.pc = "idle"
    /\ Len(loggers) < MaxLoggers
    /\ Len(gates) < MaxGates
    /\ LET w == ConfigureBuild([World EXCEPT !.calls = <<>>], config)
       IN  /\ Install(w)
           /\ conf' = IF w.proc = "running"
                      THEN [pc |-> "built", config |-> config, entry |-> Len(w.loggers)]
                      ELSE Idle
    /\ ret' = [op |-> "ConfigureBegin", on |-> 0, arg |-> config, val |-> 0]
    /\ lastSet' = NoLevel
    /\ lineage' = IF Len(loggers') > Len(loggers) THEN Append(lineage, Built) ELSE lineage
    /\ UNCHANGED ctx

\* ... the assignment to DefaultZapLogger in line 129 ...
ConfigureInstall ==
    /\ proc = "running"
    /\ conf.pc = "built"
    /\ Install(ConfigureAssign([World EXCEPT !.calls = <<>>], conf.entry))
    /\ conf' = [conf EXCEPT !.pc = "assigned"]
    /\ ret' = [op |-> "ConfigureInstall", on |-> 0, arg |-> conf.config, val |-> 0]
    /\ UNCHANGED <<ctx, lastSet, lineage>>

\* ... DeclareLogger(config, Infov) in line 131 ...
ConfigureDeclareInfo ==
    /\ proc = "running"
    /\ conf.pc = "assigned"
    /\ LET w == DeclareInfo([World EXCEPT !.calls = <<>>], conf.config)
       IN  /\ Install(w)
           /\ conf' = IF w.proc = "running" THEN [conf EXCEPT !.pc = "declared"] ELSE Idle
    /\ ret' = [op |-> "ConfigureDeclareInfo", on |-> 0, arg |-> conf.config, val |-> 0]
    /\ UNCHANGED <<ctx, lastSet, lineage>>

\* ... and DeclareLogger(config, Errorv) in line 132, then return nil
ConfigureDeclareError ==
    /\ proc = "running"
    /\ conf.pc = "declared"
    /\ LET w == DeclareError([World EXCEPT !.calls = <<>>], conf.config)
       IN  /\ Install(w)
           /\ ret' = [op |-> "Configure", on |-> 0, arg |-> conf.config,
                      val |-> ConfigureResult(w)]
    /\ conf' = Idle
    /\ UNCHANGED <<ctx, lastSet, lineage>>

\* package ContextWithLogger(ctx)
ContextWithLogger ==
    /\ proc = "running"
    /\ Len(ctx) < MaxCtx
    /\ ctx' = LogEntryContextWithLogger(DefaultZapLogger, ctx)
    /\ ret' = [op |-> "ContextWithLogger", on |-> 0, arg |-> DefaultZapLogger, val |-> 0]
    /\ calls' = <<>>
    /\ UNCHANGED <<gates, loggers, DefaultZapLogger, loglv, proc, lastSet, lineage, conf>>

\* ContextWithCustomizedLogger(ctx, logEntry)
ContextWithCustomizedLogger(logEntry) ==
    /\ proc = "running"
    /\ Len(ctx) < MaxCtx
    /\ ctx' = LogEntryContextWithLogger(logEntry, ctx)
    /\ ret' = [op |-> "ContextWithCustomizedLogger", on |-> 0, arg |-> logEntry, val |-> 0]
    /\ calls' = <<>>
    /\ UNCHANGED <<gates, loggers, DefaultZapLogger, loglv, proc, lastSet, lineage, conf>>

\* the caller attaches a value of its own: context.WithValue(ctx, otherKey, v)
ContextWithOtherValue ==
    /\ proc = "running"
    /\ Len(ctx) < MaxCtx
    /\ ctx' = WithValue(ctx, otherKey, 0)
    /\ ret' = [op |-> "context.WithValue", on |-> 0, arg |-> 0, val |-> 0]
    /\ calls' = <<>>
    /\ UNCHANGED <<gates, loggers, DefaultZapLogger, loglv, proc, lastSet, lineage, conf>>

\* the caller starts over from context.Background()
ContextBackground ==
    /\ proc = "running"
    /\ ctx # <<>>
    /\ ctx' = <<>>
    /\ ret' = [op |-> "context.Background", on |-> 0, arg |-> 0, val |-> 0]
    /\ calls' = <<>>
    /\ UNCHANGED <<gates, loggers, DefaultZapLogger, loglv, proc, lastSet, lineage, conf>>

\* FromContext(ctx)
FromContext ==
    /\ proc = "running"
    /\ ret' = [op |-> "FromContext", on |-> 0, arg |-> 0,
               val |-> FromContextOf(ctx, DefaultZapLogger)]
    /\ calls' = <<>>
    /\ UNCHANGED <<gates, loggers, DefaultZapLogger, loglv, proc, ctx, lastSet, lineage, conf>>

(* ---------------------------------------------------------------------- *)
(* Specifications                                                           *)
(* ---------------------------------------------------------------------- *)
\* Spec: the registry. Configure over the sink layouts, the level gate, log
\* calls through a plain and a sugared method of both APIs.
Configs ==
    {c \in AllConfigs :
        /\ c.Level \in {DebugLevel, WarnLevel, FatalLevel}
        /\ c.ConsoleInfoStream = c.ConsoleErrorStream}

MainStyles == {"plain", "f"}

Next ==
    \/ \E l \in Levels : SetLevel(l)
    \/ GetLevel
    \/ \E api \in Apis, style \in MainStyles, sev \in Levels : \E le \in Receivers(api) :
          Log(api, le, style, sev, <<>>)
    \/ \E config \in Configs : Configure(config)
    \/ WithField("k1", "a")

Spec == Init /\ [][Next]_vars

(* ---------------------------------------------------------------------- *)
(* Claims checked under Spec                                                *)
(* ---------------------------------------------------------------------- *)
ZapLoggers == {"infoLogger", "errorLogger", "infoSugared", "errorSugared"}

CallSet == {calls[i] : i \in 1..Len(calls)}

SinksOf(out) == {out[i] : i \in 1..Len(out)}

\* C1: every log call writes a record to its logger's sinks if and only if
\* its severity is at or above the level of that logger's gate, and a call at
\* a disabled severity writes to no sink.
C1_WritesIffAtOrAboveGate ==
    \A c \in CallSet :
        /\ (c.written # <<>>) <=> (c.sev >= gates[c.lv])
        /\ c.sev < gates[c.lv] => c.written = <<>>

(* ---------------------------------------------------------------------- *)
(* SpecSinks: the sinks Configure attaches, for every layout of a Config    *)
(* ---------------------------------------------------------------------- *)
SinkConfigs == {c \in AllConfigs : c.Level \in {InfoLevel, FatalLevel}}

NextSinks ==
    \/ \E config \in SinkConfigs : Configure(config)
    \/ \E api \in Apis, sev \in {DebugLevel, InfoLevel, ErrorLevel} : \E le \in Receivers(api) :
          Log(api, le, "plain", sev, <<>>)

SpecSinks == Init /\ [][NextSinks]_vars

\* C2: after Configure with FileLoggingEnabled = false, whatever
\* ConsoleLoggingEnabled is, the default logger is the one just built and each
\* of its zap loggers has a non-empty output made of console sinks only.
C2_ConsoleOnlyWithoutFile ==
    (ret.op = "Configure" /\ ~ret.arg.FileLoggingEnabled) =>
        /\ ret.val = "nil"
        /\ DefaultZapLogger = Len(loggers)
        /\ \A t \in ZapLoggers :
              /\ loggers[DefaultZapLogger][t].out # <<>>
              /\ SinksOf(loggers[DefaultZapLogger][t].out) \subseteq ConsoleSinks
        /\ \A c \in CallSet : SinksOf(c.written) \subseteq ConsoleSinks

\* witness of C2: Configure ran with file and console logging both off and
\* its "logging configured" record went to the console
C2_Witness ==
    /\ ret.op = "Configure"
    /\ ~ret.arg.FileLoggingEnabled
    /\ ~ret.arg.ConsoleLoggingEnabled
    /\ \E c \in CallSet : c.msg = <<"logging configured">> /\ c.written = <<Stdout>>

\* C3: when a sink cannot be built (MkdirAll fails with file logging on),
\* Configure returns a non-nil error; it returns nil only when every sink
\* was built.
C3_ConfigureReturnsError ==
    (ret.op = "Configure" /\ ret.val # "no return") =>
        IF ret.arg.FileLoggingEnabled /\ MkdirAllFails(ret.arg.Directory)
        THEN ret.val = "error"
        ELSE ret.val = "nil"

\* C4: also when the log directory cannot be created, no log call crashes
\* the process, the default logger has no invalid sink and every enabled
\* record reaches a valid sink.
C4_WorkingLoggerAfterMkdirFailure ==
    /\ proc # "crashed"
    /\ \A t \in ZapLoggers : NilSink \notin SinksOf(loggers[DefaultZapLogger][t].out)
    /\ \A c \in CallSet :
          c.enabled => (c.outcome # "nilderef" /\ c.written # <<>>)

(* ---------------------------------------------------------------------- *)
(* SpecConc: Configure as a goroutine, interleaved with other goroutines    *)
(* ---------------------------------------------------------------------- *)
ConcConfigs ==
    {c \in AllConfigs :
        /\ c.Level \in {InfoLevel, ErrorLevel}
        /\ ~c.FileLoggingEnabled /\ ~c.ConsoleLoggingEnabled /\ c.Directory = GoodDir
        /\ ~c.ConsoleInfoStream /\ ~c.ConsoleErrorStream}

NextConc ==
    \/ \E config \in ConcConfigs : ConfigureBegin(config)
    \/ ConfigureInstall
    \/ ConfigureDeclareInfo
    \/ ConfigureDeclareError
    \/ \E l \in Levels : SetLevel(l)
    \/ GetLevel
    \/ \E sev \in Levels : Log("package", DefaultZapLogger, "plain", sev, <<>>)

SpecConc == Init /\ [][NextConc]_vars

\* C5: Configure swaps the default logger and the gate of SetLevel/GetLevel
\* together: in every state a concurrent caller can observe, loglv is the
\* gate of the logger that is the default.
C5_SwapIsAtomic ==
    \A t \in ZapLoggers : loggers[DefaultZapLogger][t].lv = loglv

(* ---------------------------------------------------------------------- *)
(* SpecLevel: SetLevel across Configure and derived loggers. A context      *)
(* hands out LogEntries that exist (FromContext), and the log calls range   *)
(* over every LogEntry the program holds.                                   *)
(* ---------------------------------------------------------------------- *)
LevelConfigs ==
    {c \in AllConfigs :
        /\ c.Level \in {DebugLevel, FatalLevel}
        /\ ~c.FileLoggingEnabled /\ ~c.ConsoleLoggingEnabled /\ c.Directory = GoodDir
        /\ ~c.ConsoleInfoStream /\ ~c.ConsoleErrorStream}

NextLevel ==
    \/ \E l \in {DebugLevel, WarnLevel, ErrorLevel, FatalLevel} : SetLevel(l)
    \/ \E config \in LevelConfigs : Configure(config)
    \/ WithField("k1", "a")
    \/ \E le \in Held : LogEntryWithFieldsOp(le, << <<"k2", "b">> >>)
    \/ \E api \in Apis, sev \in Levels : \E le \in Receivers(api) :
          Log(api, le, "plain", sev, <<>>)

SpecLevel == Init /\ [][NextLevel]_vars

\* the logger built by newZapLogger that LogEntry i descends from
RECURSIVE Origin(_)
Origin(i) == IF lineage[i].parent = 0 THEN i ELSE Origin(lineage[i].parent)

\* C6 as stated: after SetLevel(X), every log call on the default logger or
\* on any LogEntry derived from a default logger, also one derived before an
\* intervening Configure, is gated by X.
C6_SetLevelGatesEveryDerivedEntry ==
    lastSet.set =>
        \A c \in CallSet :
            (c.le = DefaultZapLogger \/ lineage[c.le].parent # 0) =>
                (c.enabled <=> (c.sev >= lastSet.level))

\* C6 as amended: after SetLevel(X), and until the next SetLevel or
\* Configure, every log call on the default logger or on a LogEntry derived
\* from the logger that is the default is gated by X.
C6_SetLevelGatesCurrentDefaultLineage ==
    lastSet.set =>
        \A c \in CallSet :
            Origin(c.le) = DefaultZapLogger => (c.enabled <=> (c.sev >= lastSet.level))

\* witness of C6: after a Configure and SetLevel(Error), a Warn call on a
\* LogEntry derived from the new default is refused
C6_Witness ==
    /\ lastSet.set /\ lastSet.level = ErrorLevel
    /\ Len(gates) > 1
    /\ \E c \in CallSet :
          /\ c.le # DefaultZapLogger
          /\ Origin(c.le) = DefaultZapLogger
          /\ c.sev = WarnLevel
          /\ ~c.enabled

(* ---------------------------------------------------------------------- *)
(* SpecFields: binding fields                                               *)
(* ---------------------------------------------------------------------- *)
FieldConfigs ==
    {c \in AllConfigs :
        /\ c.Level = InfoLevel
        /\ ~c.FileLoggingEnabled /\ ~c.ConsoleLoggingEnabled /\ c.Directory = GoodDir
        /\ ~c.ConsoleInfoStream /\ ~c.ConsoleErrorStream}

\* the extra fields the drawn log calls pass
ExtraFields == {<<>>, << <<"k3", "a">>, <<"k1", "b">> >>}

NextFields ==
    \/ \E f \in FieldMaps : \E args \in convertFields(f) : WithFields(args)
    \/ \E k \in Keys, v \in Vals : WithField(k, v)
    \/ \E data \in Vals : WithData(data)
    \/ \E le \in Held : \E f \in FieldMaps : \E args \in convertFields(f) :
          LogEntryWithFieldsOp(le, args)
    \/ \E api \in Apis, style \in {"plain", "With"}, sev \in {InfoLevel, ErrorLevel} :
          \E le \in Receivers(api) :
          \E extra \in (IF TakesFields(style) THEN ExtraFields ELSE {<<>>}) :
          Log(api, le, style, sev, extra)
    \/ \E config \in FieldConfigs : Configure(config)

SpecFields == Init /\ [][NextFields]_vars

\* the fields the caller bound on LogEntry i and on its ancestors, oldest first
RECURSIVE Bound(_)
Bound(i) ==
    IF lineage[i].parent = 0 THEN <<>> ELSE Bound(lineage[i].parent) \o lineage[i].args

Children(i) == {j \in 1..Len(lineage) : lineage[j].parent = i}

\* C7: binding fields does not change the parent. Every record logged
\* through a LogEntry from which children were derived carries exactly the
\* fields the parent had before, and every record logged through a derived
\* LogEntry carries the fields bound for it.
C7_BindingLeavesParentUnchanged ==
    \A c \in CallSet :
        /\ Children(c.le) # {} => c.fields = Bound(c.le) \o c.extra
        /\ lineage[c.le].parent # 0 =>
              \A i \in 1..Len(lineage[c.le].args) :
                  \E j \in 1..Len(c.fields) : c.fields[j] = lineage[c.le].args[i]

\* witness of C7: a record logged through a parent after a child with a
\* field was derived from it
C7_Witness ==
    \E c \in CallSet :
        /\ c.written # <<>>
        /\ \E j \in Children(c.le) : lineage[j].args # <<>>

\* C8: for c1 = WithField(k1, v1) and c2 = c1.WithFields(f), a record logged
\* through c2 carries the fields of c1, then those of c2, then the call's own.
C8_BindingsCompose ==
    \A c \in CallSet :
        LET p == lineage[c.le].parent
        IN  (p # 0 /\ lineage[p].parent # 0 /\ lineage[lineage[p].parent].parent = 0) =>
                c.fields = lineage[p].args \o lineage[c.le].args \o c.extra

\* witness of C8: a record with an extra field logged through the second of
\* two bindings of different keys
C8_Witness ==
    \E c \in CallSet :
        LET p == lineage[c.le].parent
        IN  /\ p # 0 /\ lineage[p].parent # 0
            /\ lineage[p].args = << <<"k1", "a">> >>
            /\ lineage[c.le].args = << <<"k2", "a">> >>
            /\ c.extra # <<>>
            /\ c.written # <<>>

(* ---------------------------------------------------------------------- *)
(* SpecApi: every function and method of the leveled API                    *)
(* ---------------------------------------------------------------------- *)
ApiConfigs ==
    {c \in AllConfigs :
        /\ c.Level = WarnLevel
        /\ c.FileLoggingEnabled /\ c.ConsoleLoggingEnabled /\ c.Directory = GoodDir
        /\ ~c.ConsoleInfoStream /\ ~c.ConsoleErrorStream}

ApiExtraFields == << <<"k2", "a">> >>

NextApi ==
    \/ \E l \in {DebugLevel, ErrorLevel} : SetLevel(l)
    \/ \E config \in ApiConfigs : Configure(config)
    \/ WithField("k1", "a")
    \/ \E api \in Apis, style \in Styles, sev \in Levels :
          \E le \in Receivers(api) :
          Log(api, le, style, sev, IF TakesFields(style) THEN ApiExtraFields ELSE <<>>)

SpecApi == Init /\ [][NextApi]_vars

\* the channel the claim assigns to a severity
ChannelOf(sev) == IF sev \in {DebugLevel, InfoLevel} THEN "infoLogger" ELSE "errorLogger"

OtherChannel(ch) == IF ch = "infoLogger" THEN "errorLogger" ELSE "infoLogger"

\* C9: whatever the style and the API, a call at Debug or Info writes to the
\* sinks of the info channel only, a call at Warn or above to the sinks of
\* the error channel only, and the call is enabled exactly when its severity
\* is at or above the one gate both channels of its logger share.
C9_StylesShareChannelAndGate ==
    \A c \in CallSet :
        LET le == loggers[c.le]
            ch == ChannelOf(c.sev)
        IN  /\ Defined(c.api, c.style)
            /\ SinksOf(c.written) \subseteq SinksOf(le[ch].out)
            /\ SinksOf(c.written) \cap SinksOf(le[OtherChannel(ch)].out) = {}
            /\ (c.enabled /\ c.outcome # "nilderef") => c.written = le[ch].out
            /\ le.infoLogger.lv = le.errorLogger.lv
            /\ c.enabled <=> (c.sev >= gates[le[ch].lv])
            /\ c.fields = le[ch].fields \o c.extra

\* witness of C9: a sugared LogEntry method at Warn wrote to the error sinks
\* of a logger with a file and a console sink
C9_Witness ==
    \E c \in CallSet :
        /\ c.api = "LogEntry" /\ c.style = "ln" /\ c.sev = WarnLevel
        /\ c.written = <<"error.log", Stderr>>

(* ---------------------------------------------------------------------- *)
(* SpecCtx: the context association                                         *)
(* ---------------------------------------------------------------------- *)
NextCtx ==
    \/ \E config \in FieldConfigs : Configure(config)
    \/ WithField("k1", "a")
    \/ ContextWithLogger
    \/ \E le \in Held : ContextWithCustomizedLogger(le)
    \/ ContextWithOtherValue
    \/ ContextBackground
    \/ FromContext

SpecCtx == Init /\ [][NextCtx]_vars

NoLoggerAttached(c) == \A i \in 1..Len(c) : c[i][1] # loggerKey

\* C10: FromContext right after ContextWithCustomizedLogger(ctx, le) returns
\* le, and FromContext on a context without an attached logger returns the
\* logger that is the default when FromContext is called.
C10_ContextRoundTrip ==
    [][ret'.op = "FromContext" =>
          /\ ret.op = "ContextWithCustomizedLogger" => ret'.val = ret.arg
          /\ NoLoggerAttached(ctx) => ret'.val = DefaultZapLogger']_vars

\* witness of C10: after a Configure, FromContext returned an attached
\* LogEntry that is not the default
C10_Witness ==
    /\ ret.op = "FromContext"
    /\ DefaultZapLogger # 1
    /\ ~NoLoggerAttached(ctx)
    /\ ret.val # DefaultZapLogger

(* ---------------------------------------------------------------------- *)
(* SpecAtLevel: AtLevel                                                     *)
(* ---------------------------------------------------------------------- *)
\* zapcore.Level.String(), the text zap.Any("level", level) logs
LevelString(level) ==
    CASE level = DebugLevel -> "debug"
      [] level = InfoLevel -> "info"
      [] level = WarnLevel -> "warn"
      [] level = ErrorLevel -> "error"
      [] level = DPanicLevel -> "dpanic"
      [] level = PanicLevel -> "panic"
      [] level = FatalLevel -> "fatal"
      [] OTHER -> "Level(unknown)"

\* Debugv ... Fatalv of the package: the plain logger of the level's band
\* on the default logger
Xv(w, sev, msg, fields) ==
    zapLog(w, "package", "v", w.DefaultZapLogger, Target("package", "v", sev),
           sev, msg, fields)

\* AtLevel(level, msg, fields...): the switch has a case for Debug, Panic,
\* Error, Warn, Info and Fatal; every other level takes the default branch
AtLevelWorld(w, level, msg, fields) ==
    IF level \in {DebugLevel, PanicLevel, ErrorLevel, WarnLevel, InfoLevel, FatalLevel}
    THEN Xv(w, level, msg, fields)
    ELSE Xv(Xv(w, WarnLevel, <<"Logging at unkown level">>,
               << <<"level", LevelString(level)>> >>),
            WarnLevel, msg, fields)

AtLevel(level, fields) ==
    /\ proc = "running"
    /\ Install(AtLevelWorld([World EXCEPT !.calls = <<>>], level, <<"msg">>, fields))
    /\ ret' = [op |-> "AtLevel", on |-> DefaultZapLogger,
               arg |-> [level |-> level, fields |-> fields], val |-> 0]
    /\ UNCHANGED <<ctx, lastSet, lineage, conf>>

AtLevelFields == {<<>>, << <<"k1", "a">> >>}

NextAtLevel ==
    \/ \E level \in Levels, fields \in AtLevelFields : AtLevel(level, fields)
    \/ \E l \in {DebugLevel, ErrorLevel} : SetLevel(l)
    \/ \E config \in ApiConfigs : Configure(config)

SpecAtLevel == Init /\ [][NextAtLevel]_vars

\* C11: AtLevel(level, msg, fields), for each of the seven levels, issues
\* exactly one log call, on the default logger, at severity level, with the
\* message msg and the fields given.
C11_AtLevelLogsOnceAtGivenLevel ==
    ret.op = "AtLevel" =>
        /\ Len(calls) = 1
        /\ calls[1].le = DefaultZapLogger
        /\ calls[1].sev = ret.arg.level
        /\ calls[1].msg = <<"msg">>
        /\ calls[1].extra = ret.arg.fields

(* ---------------------------------------------------------------------- *)
(* NewLogEntry                                                              *)
(* ---------------------------------------------------------------------- *)
\* NewLogEntry up to and including newZapLogger (lines 139-153): the file
\* writers when file logging is on, os.Stdout/os.Stderr otherwise, and a
\* logger that is not published as the default
NewLogEntryBuild(w, config) ==
    LET r1 == IF config.FileLoggingEnabled
              THEN newRollingFile(w, config.Directory, getNameByLogLevel(InfoLevel))
              ELSE [w |-> w, sink |-> NilSink]
        r2 == IF config.FileLoggingEnabled
              THEN newRollingFile(r1.w, config.Directory, getNameByLogLevel(ErrorLevel))
              ELSE [w |-> r1.w, sink |-> NilSink]
        infoWriters == IF config.FileLoggingEnabled THEN <<r1.sink>> ELSE <<Stdout>>
        errWriters == IF config.FileLoggingEnabled THEN <<r2.sink>> ELSE <<Stderr>>
    IN  newZapLogger(r2.w, config, infoWriters, errWriters, FALSE)

\* logEntry.Infov / logEntry.Errorv, the methods DeclareLogger is handed
LogEntryXv(w, le, sev, msg, fields) ==
    zapLog(w, "LogEntry", "v", le, Target("LogEntry", "v", sev), sev, msg, fields)

\* the whole of NewLogEntry (lines 138-158)
NewLogEntryWorld(w, config) ==
    LET w1 == NewLogEntryBuild(w, config)
        logEntry == Len(w1.loggers)
        w2 == LogEntryXv(w1, logEntry, InfoLevel, <<"logging configured">>,
                         DeclareFields(config))
    IN  IF w1.proc # "running" THEN w1
        ELSE LogEntryXv(w2, logEntry, ErrorLevel, <<"logging configured">>,
                        DeclareFields(config))

\* a LogEntry built by newZapLogger with isDefaultLogger = false
BuiltNotDefault == [parent |-> 0, args |-> <<>>, isDefaultLogger |-> FALSE]

\* what NewLogEntry hands back to its caller: the LogEntry it built; a call
\* that panicked inside returns nothing
NewLogEntryResult(w) == IF w.proc = "running" THEN "LogEntry" ELSE "no return"

\* NewLogEntry(config); on is the address of the LogEntry returned
NewLogEntry(config) ==
    /\ proc = "running"
    /\ Len(loggers) < MaxLoggers
    /\ Len(gates) < MaxGates
    /\ LET w == NewLogEntryWorld([World EXCEPT !.calls = <<>>], config)
       IN  /\ Install(w)
           /\ ret' = [op |-> "NewLogEntry",
                      on |-> IF w.proc = "running" THEN Len(w.loggers) ELSE 0,
                      arg |-> config, val |-> NewLogEntryResult(w)]
    /\ lineage' = IF Len(loggers') > Len(loggers)
                  THEN Append(lineage, BuiltNotDefault) ELSE lineage
    /\ UNCHANGED <<ctx, lastSet, conf>>

(* ---------------------------------------------------------------------- *)
(* SpecBuild: the two constructors over every layout of a Config            *)
(* ---------------------------------------------------------------------- *)
NextBuild ==
    \/ \E config \in SinkConfigs : Configure(config)
    \/ \E config \in SinkConfigs : NewLogEntry(config)
    \/ \E sev \in {InfoLevel, ErrorLevel} : \E le \in Held :
          Log("LogEntry", le, "plain", sev, <<>>)

SpecBuild == Init /\ [][NextBuild]_vars

\* the logger the latest constructor call handed to its caller
BuiltLogger == IF ret.op = "Configure" THEN DefaultZapLogger ELSE ret.on

\* the latest operation is a constructor call that returned a logger
ConstructorReturned ==
    \/ ret.op = "Configure" /\ ret.val = "nil"
    \/ ret.op = "NewLogEntry" /\ ret.val = "LogEntry"

\* the console sinks a Config asks for
InfoConsoleOf(config) == IF config.ConsoleInfoStream THEN InfoStream ELSE Stdout
ErrConsoleOf(config) == IF config.ConsoleErrorStream THEN ErrorStream ELSE Stderr

\* the outputs of the logger Configure builds for config in this state
ConfigureOutputs(config) ==
    LET wc == ConfigureBuild(World, config)
    IN  [t \in ZapLoggers |-> wc.loggers[Len(wc.loggers)][t].out]

\* C12: after Configure(config) or NewLogEntry(config) returned with
\* config.ConsoleLoggingEnabled = true, also with file logging on, the logger
\* built has a console sink on the info and on the error channel, the
\* configured stream when one is set and stdout/stderr otherwise; and the
\* outputs NewLogEntry built are the ones Configure builds for that Config.
C12_ConsoleSinksFromBothConstructors ==
    ConstructorReturned =>
        /\ ret.arg.ConsoleLoggingEnabled =>
              /\ InfoConsoleOf(ret.arg) \in SinksOf(loggers[BuiltLogger].infoLogger.out)
              /\ InfoConsoleOf(ret.arg) \in SinksOf(loggers[BuiltLogger].infoSugared.out)
              /\ ErrConsoleOf(ret.arg) \in SinksOf(loggers[BuiltLogger].errorLogger.out)
              /\ ErrConsoleOf(ret.arg) \in SinksOf(loggers[BuiltLogger].errorSugared.out)
        /\ ConfigureBuild(World, ret.arg).proc = "running" =>
              \A t \in ZapLoggers :
                  loggers[BuiltLogger][t].out = ConfigureOutputs(ret.arg)[t]

(* ---------------------------------------------------------------------- *)
(* SpecNew: NewLogEntry next to the default logger and its gate             *)
(* ---------------------------------------------------------------------- *)
NewConfigs ==
    {c \in AllConfigs :
        /\ c.Level \in {DebugLevel, ErrorLevel}
        /\ ~c.ConsoleLoggingEnabled
        /\ ~c.ConsoleInfoStream /\ ~c.ConsoleErrorStream}

NextNew ==
    \/ \E config \in NewConfigs : NewLogEntry(config)
    \/ \E config \in NewConfigs : Configure(config)
    \/ \E l \in {InfoLevel, ErrorLevel} : SetLevel(l)
    \/ GetLevel
    \/ \E le \in Held : LogEntryWithFieldsOp(le, << <<"k1", "a">> >>)
    \/ \E sev \in {InfoLevel, WarnLevel, ErrorLevel} : \E le \in Held :
          Log("LogEntry", le, "plain", sev, <<>>)

SpecNew == Init /\ [][NextNew]_vars

\* the LogEntries built by NewLogEntry and the ones derived from them
Independent == {i \in 1..Len(loggers) : ~lineage[i].isDefaultLogger}

\* C13: NewLogEntry(config) leaves the default logger, the gate SetLevel and
\* GetLevel use and every level set so far as they were, and the logger it
\* returns has a gate of its own; and no operation, SetLevel included, changes
\* the gate or the level of a logger built by NewLogEntry.
C13_NewLogEntryIsIndependent ==
    [][/\ ret'.op = "NewLogEntry" =>
             /\ DefaultZapLogger' = DefaultZapLogger
             /\ loglv' = loglv
             /\ \A g \in 1..Len(gates) : gates'[g] = gates[g]
             /\ \A i \in 1..Len(loggers) : loggers'[i] = loggers[i]
             /\ ret'.val = "LogEntry" =>
                   \A t \in ZapLoggers :
                       /\ loggers'[ret'.on][t].lv # loglv'
                       /\ gates'[loggers'[ret'.on][t].lv] = ret'.arg.Level
       /\ \A i \in Independent : \A t \in ZapLoggers :
             /\ loggers'[i][t].lv = loggers[i][t].lv
             /\ gates'[loggers[i][t].lv] = gates[loggers[i][t].lv]]_vars

\* witness of C13: after NewLogEntry at Debug and a later SetLevel(Error), an
\* Info call on the NewLogEntry logger is written while GetLevel's gate is at
\* Error
C13_Witness ==
    /\ lastSet.set /\ lastSet.level = ErrorLevel
    /\ gates[loglv] = ErrorLevel
    /\ \E c \in CallSet :
          /\ c.le \in Independent
          /\ c.msg = <<"msg">>
          /\ c.sev = InfoLevel
          /\ c.written # <<>>

(* ---------------------------------------------------------------------- *)
(* SpecFormat: the printf-style and space-joined methods with arguments     *)
(* ---------------------------------------------------------------------- *)
\* Xf(template, args...) and Xln(args...) of the package and of LogEntry
Logf(api, le, style, sev, template, args) ==
    /\ proc = "running"
    /\ style \in {"f", "ln"}
    /\ Defined(api, style)
    /\ api = "package" => le = DefaultZapLogger
    /\ style = "ln" => template = <<>>
    /\ Install(zapLog([World EXCEPT !.calls = <<>>], api, style, le,
                      Target(api, style, sev), sev,
                      Message(api, style, template, args), <<>>))
    /\ ret' = [op |-> "Logf", on |-> le,
               arg |-> [template |-> template, args |-> args], val |-> 0]
    /\ UNCHANGED <<ctx, lastSet, lineage, conf>>

Templates == {<<"msg">>, <<"x=", "%v">>, <<"%v", "-", "%v">>}

ArgLists == {<<>>, <<Scalar("a")>>, <<Scalar("a"), Scalar("b")>>}

NextFormat ==
    \/ \E api \in Apis, sev \in Levels, template \in Templates, args \in ArgLists :
          \E le \in Receivers(api) : Logf(api, le, "f", sev, template, args)
    \/ \E sev \in Levels, args \in ArgLists :
          \E le \in Held : Logf("LogEntry", le, "ln", sev, <<>>, args)
    \/ \E l \in {DebugLevel, ErrorLevel} : SetLevel(l)
    \/ WithField("k1", "a")

SpecFormat == Init /\ [][NextFormat]_vars

\* C14: Xf(template, a1..an) and Xln(a1..an), of LogEntry as of the package,
\* log the message the formatter makes of the n arguments a1..an: the
\* template filled with them for Xf, the arguments joined by spaces for Xln.
C14_ArgumentsFormattedOneForOne ==
    ret.op = "Logf" =>
        \A c \in CallSet :
            c.msg = IF c.style = "f"
                    THEN getMessage(ret.arg.template, ret.arg.args)
                    ELSE getMessageln(ret.arg.args)

====
